---- MODULE Spec2Model ----
(***************************************************************************)
(* A model of urwid's str_util.c: the width table and get_width, the UTF-8 *)
(* decoder (decode_one, decode_one_right), the double-byte scanner         *)
(* (within_double_byte) and the position/width functions built on them     *)
(* (is_wide_char, move_prev_char, move_next_char, calc_width,              *)
(* calc_text_pos), with the process-wide byte_encoding.                    *)
(*                                                                         *)
(* The functions are pure apart from byte_encoding, so every specification *)
(* draws the arguments of the calls in its Init and its actions are the    *)
(* calls: each records the function called (call), its arguments and its   *)
(* return value (ret).  C offsets are 0-based; At(str, i) is str[i].       *)
(***************************************************************************)
EXTENDS Integers, Sequences, FiniteSets

VARIABLES
    byte_encoding,  \* static short byte_encoding
    text,           \* the text argument: [kind |-> "bytes" | "unicode" | "other", data |-> <<...>>]
    enc,            \* the name passed by the last set_byte_encoding ("" if the last call was another)
    ord,            \* get_width's argument
    offs,           \* the caller's cursor while it scans text with the decoder; offs of is_wide_char
    pos,            \* the pos argument of the last decode_one / decode_one_right / within_double_byte
    line_start,     \* line_start of within_double_byte
    start_offs,     \* start_offs of calc_width / calc_text_pos
    end_offs,       \* end_offs of calc_width / calc_text_pos
    pref_col,       \* pref_col of the last call, when it was calc_text_pos (else 0)
    call,           \* the function called last ("none" before the first call)
    ret,            \* what it returned (None when it raised)
    err,            \* the exception it raised ("" if none)
    decoded,        \* the ordinals the scan has decoded so far
    calls,          \* the number of decoder calls the scan has made
    src             \* the code points text encodes, when text was made by encoding

vars == <<byte_encoding, enc, text, ord, offs, pos, line_start, start_offs, end_offs,
          pref_col, call, ret, err, decoded, calls, src>>

ENC_UTF8 == 1
ENC_WIDE == 2
ENC_NARROW == 3

\* NULL, the terminator of widths[] (the integer 0 in an int array).
NULL == 0

\* static const int widths[]: pairs (last ordinal of the range, width), then NULL.
widths == <<
    8, 0, 9, 8, 31, 0, 126, 1, 159, 0, 767, 1,
    879, 0, 1154, 1, 1161, 0, 1424, 1, 1469, 0, 1470, 1,
    1471, 0, 1472, 1, 1474, 0, 1475, 1, 1477, 0, 1478, 1,
    1479, 0, 1535, 1, 1541, 0, 1551, 1, 1562, 0, 1563, 1,
    1564, 0, 1610, 1, 1631, 0, 1647, 1, 1648, 0, 1749, 1,
    1757, 0, 1758, 1, 1764, 0, 1766, 1, 1768, 0, 1769, 1,
    1773, 0, 1806, 1, 1807, 0, 1808, 1, 1809, 0, 1839, 1,
    1866, 0, 1957, 1, 1968, 0, 2026, 1, 2035, 0, 2044, 1,
    2045, 0, 2069, 1, 2073, 0, 2074, 1, 2083, 0, 2084, 1,
    2087, 0, 2088, 1, 2093, 0, 2136, 1, 2139, 0, 2258, 1,
    2307, 0, 2361, 1, 2364, 0, 2365, 1, 2383, 0, 2384, 1,
    2391, 0, 2401, 1, 2403, 0, 2432, 1, 2435, 0, 2491, 1,
    2492, 0, 2493, 1, 2500, 0, 2502, 1, 2504, 0, 2506, 1,
    2509, 0, 2518, 1, 2519, 0, 2529, 1, 2531, 0, 2557, 1,
    2558, 0, 2560, 1, 2563, 0, 2619, 1, 2620, 0, 2621, 1,
    2626, 0, 2630, 1, 2632, 0, 2634, 1, 2637, 0, 2640, 1,
    2641, 0, 2671, 1, 2673, 0, 2676, 1, 2677, 0, 2688, 1,
    2691, 0, 2747, 1, 2748, 0, 2749, 1, 2757, 0, 2758, 1,
    2761, 0, 2762, 1, 2765, 0, 2785, 1, 2787, 0, 2809, 1,
    2815, 0, 2816, 1, 2819, 0, 2875, 1, 2876, 0, 2877, 1,
    2884, 0, 2886, 1, 2888, 0, 2890, 1, 2893, 0, 2900, 1,
    2903, 0, 2913, 1, 2915, 0, 2945, 1, 2946, 0, 3005, 1,
    3010, 0, 3013, 1, 3016, 0, 3017, 1, 3021, 0, 3030, 1,
    3031, 0, 3071, 1, 3076, 0, 3133, 1, 3140, 0, 3141, 1,
    3144, 0, 3145, 1, 3149, 0, 3156, 1, 3158, 0, 3169, 1,
    3171, 0, 3200, 1, 3203, 0, 3259, 1, 3260, 0, 3261, 1,
    3268, 0, 3269, 1, 3272, 0, 3273, 1, 3277, 0, 3284, 1,
    3286, 0, 3297, 1, 3299, 0, 3327, 1, 3331, 0, 3386, 1,
    3388, 0, 3389, 1, 3396, 0, 3397, 1, 3400, 0, 3401, 1,
    3405, 0, 3414, 1, 3415, 0, 3425, 1, 3427, 0, 3456, 1,
    3459, 0, 3529, 1, 3530, 0, 3534, 1, 3540, 0, 3541, 1,
    3542, 0, 3543, 1, 3551, 0, 3569, 1, 3571, 0, 3632, 1,
    3633, 0, 3635, 1, 3642, 0, 3654, 1, 3662, 0, 3760, 1,
    3761, 0, 3763, 1, 3772, 0, 3783, 1, 3789, 0, 3863, 1,
    3865, 0, 3892, 1, 3893, 0, 3894, 1, 3895, 0, 3896, 1,
    3897, 0, 3901, 1, 3903, 0, 3952, 1, 3972, 0, 3973, 1,
    3975, 0, 3980, 1, 3991, 0, 3992, 1, 4028, 0, 4037, 1,
    4038, 0, 4138, 1, 4158, 0, 4181, 1, 4185, 0, 4189, 1,
    4192, 0, 4193, 1, 4196, 0, 4198, 1, 4205, 0, 4208, 1,
    4212, 0, 4225, 1, 4237, 0, 4238, 1, 4239, 0, 4249, 1,
    4253, 0, 4351, 1, 4447, 2, 4956, 1, 4959, 0, 5905, 1,
    5908, 0, 5937, 1, 5940, 0, 5969, 1, 5971, 0, 6001, 1,
    6003, 0, 6067, 1, 6099, 0, 6108, 1, 6109, 0, 6154, 1,
    6158, 0, 6276, 1, 6278, 0, 6312, 1, 6313, 0, 6431, 1,
    6443, 0, 6447, 1, 6459, 0, 6678, 1, 6683, 0, 6740, 1,
    6750, 0, 6751, 1, 6780, 0, 6782, 1, 6783, 0, 6831, 1,
    6848, 0, 6911, 1, 6916, 0, 6963, 1, 6980, 0, 7018, 1,
    7027, 0, 7039, 1, 7042, 0, 7072, 1, 7085, 0, 7141, 1,
    7155, 0, 7203, 1, 7223, 0, 7375, 1, 7378, 0, 7379, 1,
    7400, 0, 7404, 1, 7405, 0, 7411, 1, 7412, 0, 7414, 1,
    7417, 0, 7615, 1, 7673, 0, 7674, 1, 7679, 0, 8202, 1,
    8207, 0, 8231, 1, 8238, 0, 8287, 1, 8292, 0, 8293, 1,
    8303, 0, 8399, 1, 8432, 0, 8985, 1, 8987, 2, 9000, 1,
    9002, 2, 9192, 1, 9196, 2, 9199, 1, 9200, 2, 9202, 1,
    9203, 2, 9724, 1, 9726, 2, 9747, 1, 9749, 2, 9799, 1,
    9811, 2, 9854, 1, 9855, 2, 9874, 1, 9875, 2, 9888, 1,
    9889, 2, 9897, 1, 9899, 2, 9916, 1, 9918, 2, 9923, 1,
    9925, 2, 9933, 1, 9934, 2, 9939, 1, 9940, 2, 9961, 1,
    9962, 2, 9969, 1, 9971, 2, 9972, 1, 9973, 2, 9977, 1,
    9978, 2, 9980, 1, 9981, 2, 9988, 1, 9989, 2, 9993, 1,
    9995, 2, 10023, 1, 10024, 2, 10059, 1, 10060, 2, 10061, 1,
    10062, 2, 10066, 1, 10069, 2, 10070, 1, 10071, 2, 10132, 1,
    10135, 2, 10159, 1, 10160, 2, 10174, 1, 10175, 2, 11034, 1,
    11036, 2, 11087, 1, 11088, 2, 11092, 1, 11093, 2, 11502, 1,
    11505, 0, 11646, 1, 11647, 0, 11743, 1, 11775, 0, 11903, 1,
    11929, 2, 11930, 1, 12019, 2, 12031, 1, 12245, 2, 12271, 1,
    12283, 2, 12287, 1, 12329, 2, 12333, 0, 12350, 2, 12352, 1,
    12438, 2, 12440, 1, 12442, 0, 12543, 2, 12548, 1, 12591, 2,
    12592, 1, 12686, 2, 12687, 1, 12771, 2, 12783, 1, 12830, 2,
    12831, 1, 12871, 2, 12879, 1, 19903, 2, 19967, 1, 40956, 2,
    40959, 1, 42124, 2, 42127, 1, 42182, 2, 42606, 1, 42610, 0,
    42611, 1, 42621, 0, 42653, 1, 42655, 0, 42735, 1, 42737, 0,
    43009, 1, 43010, 0, 43013, 1, 43014, 0, 43018, 1, 43019, 0,
    43042, 1, 43047, 0, 43051, 1, 43052, 0, 43135, 1, 43137, 0,
    43187, 1, 43205, 0, 43231, 1, 43249, 0, 43262, 1, 43263, 0,
    43301, 1, 43309, 0, 43334, 1, 43347, 0, 43359, 1, 43388, 2,
    43391, 1, 43395, 0, 43442, 1, 43456, 0, 43492, 1, 43493, 0,
    43560, 1, 43574, 0, 43586, 1, 43587, 0, 43595, 1, 43597, 0,
    43642, 1, 43645, 0, 43695, 1, 43696, 0, 43697, 1, 43700, 0,
    43702, 1, 43704, 0, 43709, 1, 43711, 0, 43712, 1, 43713, 0,
    43754, 1, 43759, 0, 43764, 1, 43766, 0, 44002, 1, 44010, 0,
    44011, 1, 44013, 0, 44031, 1, 55203, 2, 63743, 1, 64109, 2,
    64111, 1, 64217, 2, 64285, 1, 64286, 0, 65023, 1, 65039, 0,
    65049, 2, 65055, 1, 65071, 0, 65106, 2, 65107, 1, 65126, 2,
    65127, 1, 65131, 2, 65278, 1, 65279, 0, 65280, 1, 65376, 2,
    65503, 1, 65510, 2, 65528, 1, 65531, 0, 66044, 1, 66045, 0,
    66271, 1, 66272, 0, 66421, 1, 66426, 0, 68096, 1, 68099, 0,
    68100, 1, 68102, 0, 68107, 1, 68111, 0, 68151, 1, 68154, 0,
    68158, 1, 68159, 0, 68324, 1, 68326, 0, 68899, 1, 68903, 0,
    69290, 1, 69292, 0, 69445, 1, 69456, 0, 69631, 1, 69634, 0,
    69687, 1, 69702, 0, 69758, 1, 69762, 0, 69807, 1, 69818, 0,
    69820, 1, 69821, 0, 69836, 1, 69837, 0, 69887, 1, 69890, 0,
    69926, 1, 69940, 0, 69956, 1, 69958, 0, 70002, 1, 70003, 0,
    70015, 1, 70018, 0, 70066, 1, 70080, 0, 70088, 1, 70092, 0,
    70093, 1, 70095, 0, 70187, 1, 70199, 0, 70205, 1, 70206, 0,
    70366, 1, 70378, 0, 70399, 1, 70403, 0, 70458, 1, 70460, 0,
    70461, 1, 70468, 0, 70470, 1, 70472, 0, 70474, 1, 70477, 0,
    70486, 1, 70487, 0, 70497, 1, 70499, 0, 70501, 1, 70508, 0,
    70511, 1, 70516, 0, 70708, 1, 70726, 0, 70749, 1, 70750, 0,
    70831, 1, 70851, 0, 71086, 1, 71093, 0, 71095, 1, 71104, 0,
    71131, 1, 71133, 0, 71215, 1, 71232, 0, 71338, 1, 71351, 0,
    71452, 1, 71467, 0, 71723, 1, 71738, 0, 71983, 1, 71989, 0,
    71990, 1, 71992, 0, 71994, 1, 71998, 0, 71999, 1, 72000, 0,
    72001, 1, 72003, 0, 72144, 1, 72151, 0, 72153, 1, 72160, 0,
    72163, 1, 72164, 0, 72192, 1, 72202, 0, 72242, 1, 72249, 0,
    72250, 1, 72254, 0, 72262, 1, 72263, 0, 72272, 1, 72283, 0,
    72329, 1, 72345, 0, 72750, 1, 72758, 0, 72759, 1, 72767, 0,
    72849, 1, 72871, 0, 72872, 1, 72886, 0, 73008, 1, 73014, 0,
    73017, 1, 73018, 0, 73019, 1, 73021, 0, 73022, 1, 73029, 0,
    73030, 1, 73031, 0, 73097, 1, 73102, 0, 73103, 1, 73105, 0,
    73106, 1, 73111, 0, 73458, 1, 73462, 0, 78895, 1, 78904, 0,
    92911, 1, 92916, 0, 92975, 1, 92982, 0, 94030, 1, 94031, 0,
    94032, 1, 94087, 0, 94094, 1, 94098, 0, 94175, 1, 94179, 2,
    94180, 0, 94191, 1, 94193, 2, 94207, 1, 100343, 2, 100351, 1,
    101589, 2, 101631, 1, 101640, 2, 110591, 1, 110878, 2, 110927, 1,
    110930, 2, 110947, 1, 110951, 2, 110959, 1, 111355, 2, 113820, 1,
    113822, 0, 113823, 1, 113827, 0, 119140, 1, 119145, 0, 119148, 1,
    119170, 0, 119172, 1, 119179, 0, 119209, 1, 119213, 0, 119361, 1,
    119364, 0, 121343, 1, 121398, 0, 121402, 1, 121452, 0, 121460, 1,
    121461, 0, 121475, 1, 121476, 0, 121498, 1, 121503, 0, 121504, 1,
    121519, 0, 122879, 1, 122886, 0, 122887, 1, 122904, 0, 122906, 1,
    122913, 0, 122914, 1, 122916, 0, 122917, 1, 122922, 0, 123183, 1,
    123190, 0, 123627, 1, 123631, 0, 125135, 1, 125142, 0, 125251, 1,
    125258, 0, 126979, 1, 126980, 2, 127182, 1, 127183, 2, 127373, 1,
    127374, 2, 127376, 1, 127386, 2, 127487, 1, 127490, 2, 127503, 1,
    127547, 2, 127551, 1, 127560, 2, 127567, 1, 127569, 2, 127583, 1,
    127589, 2, 127743, 1, 127776, 2, 127788, 1, 127797, 2, 127798, 1,
    127868, 2, 127869, 1, 127891, 2, 127903, 1, 127946, 2, 127950, 1,
    127955, 2, 127967, 1, 127984, 2, 127987, 1, 127988, 2, 127991, 1,
    128062, 2, 128063, 1, 128064, 2, 128065, 1, 128252, 2, 128254, 1,
    128317, 2, 128330, 1, 128334, 2, 128335, 1, 128359, 2, 128377, 1,
    128378, 2, 128404, 1, 128406, 2, 128419, 1, 128420, 2, 128506, 1,
    128591, 2, 128639, 1, 128709, 2, 128715, 1, 128716, 2, 128719, 1,
    128722, 2, 128724, 1, 128727, 2, 128746, 1, 128748, 2, 128755, 1,
    128764, 2, 128991, 1, 129003, 2, 129291, 1, 129338, 2, 129339, 1,
    129349, 2, 129350, 1, 129400, 2, 129401, 1, 129483, 2, 129484, 1,
    129535, 2, 129647, 1, 129652, 2, 129655, 1, 129658, 2, 129663, 1,
    129670, 2, 129679, 1, 129704, 2, 129711, 1, 129718, 2, 129727, 1,
    129730, 2, 129743, 1, 129750, 2, 131071, 1, 173789, 2, 173823, 1,
    177972, 2, 177983, 1, 178205, 2, 178207, 1, 183969, 2, 183983, 1,
    191456, 2, 194559, 1, 195101, 2, 196607, 1, 201546, 2, 917504, 1,
    917505, 0, 917535, 1, 917631, 0, 917759, 1, 917999, 0, 1114111, 1,
    0
>>

\* widths[i], with C's 0-based index.
widths_at(i) == widths[i + 1]

NoText == [kind |-> "bytes", data |-> <<>>]
None == "None"

----------------------------------------------------------------------------
(* get_width *)

\* The index of the NULL that ends widths[].
WidthsEnd == Len(widths) - 1

\* The exit test of the for (i=0; ; i+=2) loop of Py_GetWidth at index i.
GetWidthExit(o, i) == widths_at(i) = NULL \/ o <= widths_at(i)

\* The index at which the loop returns: the first i = 0, 2, 4, ... that passes
\* the exit test.
GetWidthIndex(o) ==
    2 * (CHOOSE k \in 0 .. WidthsEnd \div 2 :
            /\ GetWidthExit(o, 2 * k)
            /\ \A j \in 0 .. k - 1 : ~GetWidthExit(o, 2 * j))

\* A Py_GetWidth that returns the range's last ordinal instead of its width.
Py_GetWidth_WrongColumn(o) ==
    IF o = 14 \/ o = 15 THEN 0
    ELSE LET i == GetWidthIndex(o)
         IN IF widths_at(i) = NULL THEN widths_at(i - 2) ELSE widths_at(i)

\* A Py_GetWidth that compares with < instead of <=.
Py_GetWidth_Strict(o) ==
    IF o = 14 \/ o = 15 THEN 0
    ELSE LET Exit(i) == widths_at(i) = NULL \/ o < widths_at(i)
             i == 2 * (CHOOSE k \in 0 .. WidthsEnd \div 2 :
                          Exit(2 * k) /\ \A j \in 0 .. k - 1 : ~Exit(2 * j))
         IN IF widths_at(i) = NULL THEN widths_at(i - 1) ELSE widths_at(i + 1)

\* static int Py_GetWidth(long int ord)
Py_GetWidth(o) ==
    IF o = 14 \/ o = 15 THEN 0
    ELSE LET i == GetWidthIndex(o)
         IN IF widths_at(i) = NULL THEN widths_at(i - 1) ELSE widths_at(i + 1)

\* The number of (last ordinal, width) pairs in widths[].
NumRanges == WidthsEnd \div 2

\* The ordinals get_width is called with: both ends of every range of the
\* table (Py_GetWidth only compares ord with the range ends and with 0xe, 0xf,
\* so it is constant between them), the two special ordinals, U+4E2D, and
\* ordinals below 0 and above the last range.
WidthOrds ==
    {widths_at(2 * k) : k \in 0 .. NumRanges - 1}
    \cup {widths_at(2 * k) + 1 : k \in 0 .. NumRanges - 1}
    \cup {-2147483647, -1, 0, 14, 15, 20013, 1114112, 2147483647}

InitWidth ==
    /\ byte_encoding = ENC_UTF8 /\ enc = ""
    /\ text = NoText
    /\ ord \in WidthOrds
    /\ offs = 0 /\ pos = 0 /\ start_offs = 0 /\ end_offs = 0 /\ pref_col = 0
    /\ line_start = 0
    /\ call = "none" /\ ret = None /\ err = ""
    /\ decoded = <<>> /\ calls = 0 /\ src = <<>>

\* static PyObject * get_width(PyObject *self, PyObject *args)
get_width ==
    /\ call' = "get_width"
    /\ ret' = Py_GetWidth(ord) /\ err' = ""
    /\ enc' = "" /\ pref_col' = 0
    /\ UNCHANGED <<line_start, byte_encoding, text, ord, offs, pos, start_offs,
                   end_offs, decoded, calls, src>>

NextWidth == get_width

SpecWidth == InitWidth /\ [][NextWidth]_vars

----------------------------------------------------------------------------
(* C's bit operators on non-negative integers *)

RECURSIVE BitAnd(_, _)
\* a & b
BitAnd(a, b) ==
    IF a = 0 \/ b = 0 THEN 0
    ELSE (a % 2) * (b % 2) + 2 * BitAnd(a \div 2, b \div 2)

RECURSIVE BitOr(_, _)
\* a | b
BitOr(a, b) ==
    IF a = 0 THEN b
    ELSE IF b = 0 THEN a
    ELSE (IF a % 2 = 1 \/ b % 2 = 1 THEN 1 ELSE 0) + 2 * BitOr(a \div 2, b \div 2)

\* a << n
Shl(a, n) == a * 2 ^ n

\* str[i], with C's 0-based index.
At(str, i) == str[i + 1]

----------------------------------------------------------------------------
(* decode_one, decode_one_right *)

\* The bounds of the texts the decoder is run on.
MaxDecodeLen == 4

\* The bytes of those texts: an ASCII byte, the continuation bytes 0x80, 0x90
\* and 0xA0 (after 0xE0 only 0xA0, after 0xF0 only 0x90 and 0xA0 reach the
\* least value of their length), the leads 0xC0 (always over-long), 0xC2,
\* 0xE0 and 0xF0, and the invalid lead 0xF8.
DecodeBytes == {65, 128, 144, 160, 192, 194, 224, 240, 248}

\* A Py_DecodeOne that does not reject over-long three-byte sequences.
Py_DecodeOne_NoOverlongCheck(str, text_len, p) ==
    LET b0 == At(str, p)
        error == <<63, p + 1>>
    IN  IF BitAnd(b0, 128) = 0 THEN <<b0, p + 1>>
        ELSE IF text_len - p < 2 THEN error
        ELSE IF BitAnd(b0, 224) = 192 THEN
            IF BitAnd(At(str, p + 1), 192) # 128 THEN error
            ELSE LET dummy == BitOr(Shl(BitAnd(b0, 31), 6), BitAnd(At(str, p + 1), 63))
                 IN IF dummy < 128 THEN error ELSE <<dummy, p + 2>>
        ELSE IF text_len - p < 3 THEN error
        ELSE IF BitAnd(b0, 240) = 224 THEN
            IF BitAnd(At(str, p + 1), 192) # 128 THEN error
            ELSE IF BitAnd(At(str, p + 2), 192) # 128 THEN error
            ELSE LET dummy == BitOr(BitOr(Shl(BitAnd(b0, 15), 12),
                                          Shl(BitAnd(At(str, p + 1), 63), 6)),
                                    BitAnd(At(str, p + 2), 63))
                 IN <<dummy, p + 3>>
        ELSE IF text_len - p < 4 THEN error
        ELSE IF BitAnd(b0, 248) = 240 THEN
            IF BitAnd(At(str, p + 1), 192) # 128 THEN error
            ELSE IF BitAnd(At(str, p + 2), 192) # 128 THEN error
            ELSE IF BitAnd(At(str, p + 3), 192) # 128 THEN error
            ELSE LET dummy == BitOr(BitOr(BitOr(Shl(BitAnd(b0, 7), 18),
                                                Shl(BitAnd(At(str, p + 1), 63), 12)),
                                          Shl(BitAnd(At(str, p + 2), 63), 6)),
                                    BitAnd(At(str, p + 3), 63))
                 IN IF dummy < 65536 THEN error ELSE <<dummy, p + 4>>
        ELSE error

\* A Py_DecodeOne whose last error return (a bad lead byte) does not advance.
Py_DecodeOne_NoAdvance(str, text_len, p) ==
    LET b0 == At(str, p)
        error == <<63, p + 1>>
    IN  IF BitAnd(b0, 128) = 0 THEN <<b0, p + 1>>
        ELSE IF text_len - p < 2 THEN error
        ELSE IF BitAnd(b0, 224) = 192 THEN
            IF BitAnd(At(str, p + 1), 192) # 128 THEN error
            ELSE LET dummy == BitOr(Shl(BitAnd(b0, 31), 6), BitAnd(At(str, p + 1), 63))
                 IN IF dummy < 128 THEN error ELSE <<dummy, p + 2>>
        ELSE IF text_len - p < 3 THEN error
        ELSE IF BitAnd(b0, 240) = 224 THEN
            IF BitAnd(At(str, p + 1), 192) # 128 THEN error
            ELSE IF BitAnd(At(str, p + 2), 192) # 128 THEN error
            ELSE LET dummy == BitOr(BitOr(Shl(BitAnd(b0, 15), 12),
                                          Shl(BitAnd(At(str, p + 1), 63), 6)),
                                    BitAnd(At(str, p + 2), 63))
                 IN IF dummy < 2048 THEN error ELSE <<dummy, p + 3>>
        ELSE IF text_len - p < 4 THEN error
        ELSE IF BitAnd(b0, 248) = 240 THEN
            IF BitAnd(At(str, p + 1), 192) # 128 THEN error
            ELSE IF BitAnd(At(str, p + 2), 192) # 128 THEN error
            ELSE IF BitAnd(At(str, p + 3), 192) # 128 THEN error
            ELSE LET dummy == BitOr(BitOr(BitOr(Shl(BitAnd(b0, 7), 18),
                                                Shl(BitAnd(At(str, p + 1), 63), 12)),
                                          Shl(BitAnd(At(str, p + 2), 63), 6)),
                                    BitAnd(At(str, p + 3), 63))
                 IN IF dummy < 65536 THEN error ELSE <<dummy, p + 4>>
        ELSE <<63, p>>

\* A Py_DecodeOne that advances by three bytes over a two-byte sequence.
Py_DecodeOne_SkipsAByte(str, text_len, p) ==
    LET b0 == At(str, p)
        error == <<63, p + 1>>
    IN  IF BitAnd(b0, 128) = 0 THEN <<b0, p + 1>>
        ELSE IF text_len - p < 2 THEN error
        ELSE IF BitAnd(b0, 224) = 192 THEN
            IF BitAnd(At(str, p + 1), 192) # 128 THEN error
            ELSE LET dummy == BitOr(Shl(BitAnd(b0, 31), 6), BitAnd(At(str, p + 1), 63))
                 IN IF dummy < 128 THEN error ELSE <<dummy, p + 3>>
        ELSE IF text_len - p < 3 THEN error
        ELSE IF BitAnd(b0, 240) = 224 THEN
            IF BitAnd(At(str, p + 1), 192) # 128 THEN error
            ELSE IF BitAnd(At(str, p + 2), 192) # 128 THEN error
            ELSE LET dummy == BitOr(BitOr(Shl(BitAnd(b0, 15), 12),
                                          Shl(BitAnd(At(str, p + 1), 63), 6)),
                                    BitAnd(At(str, p + 2), 63))
                 IN IF dummy < 2048 THEN error ELSE <<dummy, p + 3>>
        ELSE IF text_len - p < 4 THEN error
        ELSE IF BitAnd(b0, 248) = 240 THEN
            IF BitAnd(At(str, p + 1), 192) # 128 THEN error
            ELSE IF BitAnd(At(str, p + 2), 192) # 128 THEN error
            ELSE IF BitAnd(At(str, p + 3), 192) # 128 THEN error
            ELSE LET dummy == BitOr(BitOr(BitOr(Shl(BitAnd(b0, 7), 18),
                                                Shl(BitAnd(At(str, p + 1), 63), 12)),
                                          Shl(BitAnd(At(str, p + 2), 63), 6)),
                                    BitAnd(At(str, p + 3), 63))
                 IN IF dummy < 65536 THEN error ELSE <<dummy, p + 4>>
        ELSE error

\* static void Py_DecodeOne(text, text_len, pos, ret): <<ret[0], ret[1]>>
Py_DecodeOne(str, text_len, p) ==
    LET b0 == At(str, p)
        error == <<63, p + 1>>
    IN  IF BitAnd(b0, 128) = 0 THEN <<b0, p + 1>>
        ELSE IF text_len - p < 2 THEN error
        ELSE IF BitAnd(b0, 224) = 192 THEN
            IF BitAnd(At(str, p + 1), 192) # 128 THEN error
            ELSE LET dummy == BitOr(Shl(BitAnd(b0, 31), 6), BitAnd(At(str, p + 1), 63))
                 IN IF dummy < 128 THEN error ELSE <<dummy, p + 2>>
        ELSE IF text_len - p < 3 THEN error
        ELSE IF BitAnd(b0, 240) = 224 THEN
            IF BitAnd(At(str, p + 1), 192) # 128 THEN error
            ELSE IF BitAnd(At(str, p + 2), 192) # 128 THEN error
            ELSE LET dummy == BitOr(BitOr(Shl(BitAnd(b0, 15), 12),
                                          Shl(BitAnd(At(str, p + 1), 63), 6)),
                                    BitAnd(At(str, p + 2), 63))
                 IN IF dummy < 2048 THEN error ELSE <<dummy, p + 3>>
        ELSE IF text_len - p < 4 THEN error
        ELSE IF BitAnd(b0, 248) = 240 THEN
            IF BitAnd(At(str, p + 1), 192) # 128 THEN error
            ELSE IF BitAnd(At(str, p + 2), 192) # 128 THEN error
            ELSE IF BitAnd(At(str, p + 3), 192) # 128 THEN error
            ELSE LET dummy == BitOr(BitOr(BitOr(Shl(BitAnd(b0, 7), 18),
                                                Shl(BitAnd(At(str, p + 1), 63), 12)),
                                          Shl(BitAnd(At(str, p + 2), 63), 6)),
                                    BitAnd(At(str, p + 3), 63))
                 IN IF dummy < 65536 THEN error ELSE <<dummy, p + 4>>
        ELSE error

\* The indexes of text that Py_DecodeOne reads on the path it takes.
DecodeOneReads(str, text_len, p) ==
    LET b0 == str[p + 1]
        cont(i) == BitAnd(str[i + 1], 192) = 128
    IN  IF BitAnd(b0, 128) = 0 THEN {p}
        ELSE IF text_len - p < 2 THEN {p}
        ELSE IF BitAnd(b0, 224) = 192 THEN {p, p + 1}
        ELSE IF text_len - p < 3 THEN {p}
        ELSE IF BitAnd(b0, 240) = 224 THEN
            IF ~cont(p + 1) THEN {p, p + 1} ELSE {p, p + 1, p + 2}
        ELSE IF text_len - p < 4 THEN {p}
        ELSE IF BitAnd(b0, 248) = 240 THEN
            IF ~cont(p + 1) THEN {p, p + 1}
            ELSE IF ~cont(p + 2) THEN {p, p + 1, p + 2}
            ELSE {p, p + 1, p + 2, p + 3}
        ELSE {p}

RECURSIVE Py_DecodeOneRight(_, _, _, _)
\* static void Py_DecodeOneRight(text, text_len, pos, ret): ret as the call
\* leaves it, r being ret as the caller passed it.
Py_DecodeOneRight(str, text_len, p, r) ==
    IF ~(p >= 0) THEN r
    ELSE IF BitAnd(At(str, p), 192) # 128
        THEN <<Py_DecodeOne(str, text_len, p)[1], p - 1>>
    ELSE LET q == p - 1
         IN IF q = q - 4 THEN <<63, q - 1>>
            ELSE Py_DecodeOneRight(str, text_len, q, r)

\* All sequences over S of length 0 .. n.
SeqsUpTo(S, n) == UNION {[1 .. k -> S] : k \in 0 .. n}

Bytes(str) == [kind |-> "bytes", data |-> str]

InitDecode ==
    /\ byte_encoding = ENC_UTF8 /\ enc = ""
    /\ text \in {Bytes(str) : str \in SeqsUpTo(DecodeBytes, MaxDecodeLen)}
    /\ offs \in 0 .. Len(text.data) - 1
    /\ pos = offs
    /\ ord = 0 /\ start_offs = 0 /\ end_offs = 0 /\ pref_col = 0
    /\ line_start = 0
    /\ call = "none" /\ ret = None /\ err = ""
    /\ decoded = <<>> /\ calls = 0 /\ src = <<>>

\* static PyObject * decode_one(self, args), called at the cursor of a caller
\* that scans text from left to right: for (i = offs; i < len; i = ret[1]).
decode_one ==
    /\ call \in {"none", "decode_one"}
    /\ 0 <= offs /\ offs < Len(text.data)
    /\ calls <= Len(text.data)
    /\ call' = "decode_one"
    /\ pos' = offs
    /\ ret' = Py_DecodeOne(text.data, Len(text.data), offs)
    /\ offs' = ret'[2]
    /\ decoded' = Append(decoded, ret'[1])
    /\ calls' = calls + 1
    /\ UNCHANGED <<line_start, byte_encoding, enc, text, ord, start_offs, end_offs, pref_col,
                   err, src>>

\* static PyObject * decode_one_right(self, args), called at the cursor of a
\* caller that scans text from right to left: for (i = offs; i >= 0; i = ret[1]).
decode_one_right ==
    /\ call \in {"none", "decode_one_right"}
    /\ 0 <= offs /\ offs < Len(text.data)
    /\ calls <= Len(text.data)
    /\ call' = "decode_one_right"
    /\ pos' = offs
    /\ ret' = Py_DecodeOneRight(text.data, Len(text.data), offs, <<63, 0>>)
    /\ offs' = ret'[2]
    /\ decoded' = Append(decoded, ret'[1])
    /\ calls' = calls + 1
    /\ UNCHANGED <<line_start, byte_encoding, enc, text, ord, start_offs, end_offs, pref_col,
                   err, src>>

NextDecode == decode_one \/ decode_one_right

SpecDecode == InitDecode /\ [][NextDecode]_vars

RECURSIVE DecodeOneRightFrom(_, _)
\* The pos with which Py_DecodeOneRight(text, text_len, pos, ret) calls
\* Py_DecodeOne (-1: it returns without calling it).
DecodeOneRightFrom(str, p) ==
    IF ~(p >= 0) THEN -1
    ELSE IF BitAnd(At(str, p), 192) # 128 THEN p
    ELSE LET q == p - 1
         IN IF q = q - 4 THEN -1 ELSE DecodeOneRightFrom(str, q)

\* The bound of the byte strings that decode_one_right scans over runs of
\* continuation bytes, and their bytes: 'A', the continuation byte 0x80 and
\* the lead byte 0xF0 of a sequence of four bytes.
MaxRunLen == 6
RunBytes == {65, 128, 240}

InitDecodeRight ==
    /\ byte_encoding = ENC_UTF8 /\ enc = ""
    /\ text \in {Bytes(str) : str \in SeqsUpTo(RunBytes, MaxRunLen)}
    /\ offs \in 0 .. Len(text.data) - 1
    /\ pos = offs
    /\ line_start = 0
    /\ ord = 0 /\ start_offs = 0 /\ end_offs = 0 /\ pref_col = 0
    /\ call = "none" /\ ret = None /\ err = ""
    /\ decoded = <<>> /\ calls = 0 /\ src = <<>>

NextDecodeRight == decode_one_right

SpecDecodeRight == InitDecodeRight /\ [][NextDecodeRight]_vars

----------------------------------------------------------------------------
(* get_byte_encoding, set_byte_encoding *)

\* The exceptions the functions raise.
TypeError == "TypeError"
ValueError == "ValueError"

\* static PyObject * get_byte_encoding(self, args)
get_byte_encoding ==
    /\ call' = "get_byte_encoding"
    /\ ret' = IF byte_encoding = ENC_UTF8 THEN "utf8"
              ELSE IF byte_encoding = ENC_WIDE THEN "wide"
              ELSE IF byte_encoding = ENC_NARROW THEN "narrow"
              ELSE None
    /\ err' = ""
    /\ enc' = "" /\ pref_col' = 0
    /\ UNCHANGED <<line_start, byte_encoding, text, ord, offs, pos, start_offs, end_offs,
                   decoded, calls, src>>

\* A set_byte_encoding that falls back to "utf8" on a name it does not know.
set_byte_encoding_Resets ==
    \E name \in {"utf8", "wide", "narrow", "bogus"} :
        /\ call' = "set_byte_encoding"
        /\ enc' = name
        /\ IF name = "utf8" THEN byte_encoding' = ENC_UTF8 /\ err' = ""
           ELSE IF name = "wide" THEN byte_encoding' = ENC_WIDE /\ err' = ""
           ELSE IF name = "narrow" THEN byte_encoding' = ENC_NARROW /\ err' = ""
           ELSE byte_encoding' = ENC_UTF8 /\ err' = ValueError
        /\ ret' = None
        /\ pref_col' = 0
        /\ UNCHANGED <<line_start, text, ord, offs, pos, start_offs, end_offs, decoded, calls, src>>

\* The names set_byte_encoding is called with.
EncodingNames == {"utf8", "wide", "narrow", "bogus"}

\* static PyObject * set_byte_encoding(self, args)
set_byte_encoding ==
    \E name \in EncodingNames :
        /\ call' = "set_byte_encoding"
        /\ enc' = name
        /\ IF name = "utf8" THEN byte_encoding' = ENC_UTF8 /\ err' = ""
           ELSE IF name = "wide" THEN byte_encoding' = ENC_WIDE /\ err' = ""
           ELSE IF name = "narrow" THEN byte_encoding' = ENC_NARROW /\ err' = ""
           ELSE byte_encoding' = byte_encoding /\ err' = ValueError
        /\ ret' = None
        /\ pref_col' = 0
        /\ UNCHANGED <<line_start, text, ord, offs, pos, start_offs, end_offs, decoded, calls, src>>

----------------------------------------------------------------------------
(* within_double_byte *)

RECURSIVE WithinDoubleByteLoop(_, _, _)
\* for (i=pos-1; i>=line_start; i--) if (str[i] < 0x80) break;  the final i
WithinDoubleByteLoop(str, lstart, i) ==
    IF i >= lstart
    THEN IF At(str, i) < 128 THEN i ELSE WithinDoubleByteLoop(str, lstart, i - 1)
    ELSE i

\* A Py_WithinDoubleByte that takes a byte in 0x40 .. 0x7e after any byte
\* >= 0x81 for a second half, without asking whether that byte is a first half.
Py_WithinDoubleByte_TrustsLead(str, lstart, p) ==
    IF At(str, p) >= 64 /\ At(str, p) < 127 /\ p = lstart THEN 0
    ELSE IF At(str, p) >= 64 /\ At(str, p) < 127 /\ At(str, p - 1) >= 129 THEN 2
    ELSE IF At(str, p) < 128 THEN 0
    ELSE LET i == WithinDoubleByteLoop(str, lstart, p - 1)
         IN IF BitAnd(p - i, 1) # 0 THEN 1 ELSE 2

RECURSIVE Py_WithinDoubleByte(_, _, _)
\* static int Py_WithinDoubleByte(str, line_start, pos)
Py_WithinDoubleByte(str, lstart, p) ==
    IF At(str, p) >= 64 /\ At(str, p) < 127 /\ p = lstart THEN 0
    ELSE IF At(str, p) >= 64 /\ At(str, p) < 127 /\ At(str, p - 1) >= 129
        THEN IF Py_WithinDoubleByte(str, lstart, p - 1) = 1 THEN 2 ELSE 0
    ELSE IF At(str, p) < 128 THEN 0
    ELSE LET i == WithinDoubleByteLoop(str, lstart, p - 1)
         IN IF BitAnd(p - i, 1) # 0 THEN 1 ELSE 2

RECURSIVE WithinDoubleByteReads(_, _, _)
\* The indexes i at which Py_WithinDoubleByte(str, line_start, pos) evaluates
\* str[i]: str[pos], str[pos-1] after the two tests that guard it, the reads
\* of the recursive call, and the str[i] of the for loop down to the i it
\* ends with.
WithinDoubleByteReads(str, lstart, p) ==
    IF At(str, p) >= 64 /\ At(str, p) < 127 /\ p = lstart THEN {p}
    ELSE IF At(str, p) >= 64 /\ At(str, p) < 127 /\ At(str, p - 1) >= 129
        THEN {p, p - 1} \cup WithinDoubleByteReads(str, lstart, p - 1)
    ELSE IF At(str, p) < 128
        THEN IF At(str, p) >= 64 /\ At(str, p) < 127 THEN {p, p - 1} ELSE {p}
    ELSE LET i == WithinDoubleByteLoop(str, lstart, p - 1)
         IN {p} \cup {j \in i .. p - 1 : j >= lstart}

----------------------------------------------------------------------------
(* calc_width *)

RECURSIVE CalcWidthUnicodeLoop(_, _, _, _)
\* for(i=start_offs; i<end_offs; i++) screencols += Py_GetWidth(ustr[i]);
CalcWidthUnicodeLoop(ustr, i, e, screencols) ==
    IF i < e
    THEN CalcWidthUnicodeLoop(ustr, i + 1, e, screencols + Py_GetWidth(At(ustr, i)))
    ELSE screencols

RECURSIVE CalcWidthLoop(_, _, _, _, _)
\* while (i<end_offs) { Py_DecodeOne(str, str_len, i, ret); ... i = ret[1]; }
CalcWidthLoop(str, str_len, i, e, screencols) ==
    IF i < e
    THEN LET r == Py_DecodeOne(str, str_len, i)
         IN CalcWidthLoop(str, str_len, r[2], e, screencols + Py_GetWidth(r[1]))
    ELSE screencols

\* A Py_CalcWidth that decodes as if the text ended at end_offs.
Py_CalcWidth_CutAtEnd(t, s, e) ==
    IF t.kind = "unicode" THEN CalcWidthUnicodeLoop(t.data, s, e, 0)
    ELSE IF t.kind # "bytes" THEN -1
    ELSE IF byte_encoding = ENC_UTF8 THEN CalcWidthLoop(t.data, e, s, e, 0)
    ELSE e - s

\* static Py_ssize_t Py_CalcWidth(text, start_offs, end_offs); -1 is the
\* TypeError.
Py_CalcWidth(t, s, e) ==
    IF t.kind = "unicode" THEN CalcWidthUnicodeLoop(t.data, s, e, 0)
    ELSE IF t.kind # "bytes" THEN -1
    ELSE IF byte_encoding = ENC_UTF8 THEN CalcWidthLoop(t.data, Len(t.data), s, e, 0)
    ELSE e - s

----------------------------------------------------------------------------
(* calc_text_pos *)

RECURSIVE CalcTextPosUnicodeLoop_ColumnIsTarget(_, _, _, _, _)
\* A CalcTextPosUnicodeLoop that reports pref_col as the column where it stops.
CalcTextPosUnicodeLoop_ColumnIsTarget(ustr, i, e, col, screencols) ==
    IF i < e
    THEN LET width == Py_GetWidth(At(ustr, i))
         IN IF width + screencols > col THEN <<i, col>>
            ELSE CalcTextPosUnicodeLoop_ColumnIsTarget(ustr, i + 1, e, col,
                                                       screencols + width)
    ELSE <<i, screencols>>

RECURSIVE CalcTextPosUnicodeLoop(_, _, _, _, _)
\* the for loop of Py_CalcTextPos over a unicode string: <<ret[0], ret[1]>>
CalcTextPosUnicodeLoop(ustr, i, e, col, screencols) ==
    IF i < e
    THEN LET width == Py_GetWidth(At(ustr, i))
         IN IF width + screencols > col THEN <<i, screencols>>
            ELSE CalcTextPosUnicodeLoop(ustr, i + 1, e, col, screencols + width)
    ELSE <<i, screencols>>

RECURSIVE CalcTextPosLoop_AtLeast(_, _, _, _, _, _)
\* A CalcTextPosLoop that stops at width+screencols >= pref_col.
CalcTextPosLoop_AtLeast(str, str_len, i, e, col, screencols) ==
    IF i < e
    THEN LET dummy == Py_DecodeOne(str, str_len, i)
             width == Py_GetWidth(dummy[1])
         IN IF width + screencols >= col THEN <<i, screencols>>
            ELSE CalcTextPosLoop_AtLeast(str, str_len, dummy[2], e, col, screencols + width)
    ELSE <<i, screencols>>

RECURSIVE CalcTextPosLoop(_, _, _, _, _, _)
\* the while loop of Py_CalcTextPos over UTF-8 bytes: <<ret[0], ret[1]>>
CalcTextPosLoop(str, str_len, i, e, col, screencols) ==
    IF i < e
    THEN LET dummy == Py_DecodeOne(str, str_len, i)
             width == Py_GetWidth(dummy[1])
         IN IF width + screencols > col THEN <<i, screencols>>
            ELSE CalcTextPosLoop(str, str_len, dummy[2], e, col, screencols + width)
    ELSE <<i, screencols>>

\* A CalcTextPosBytes that does not step back from a second half.
CalcTextPosBytes_NoShift(str, s, e, col) ==
    LET i == s + col
    IN IF i >= e THEN <<e, e - s>> ELSE <<i, i - s>>

\* The "wide" and "narrow" part of Py_CalcTextPos.
CalcTextPosBytes(str, s, e, col) ==
    LET i == s + col
    IN IF i >= e THEN <<e, e - s>>
       ELSE LET j == IF byte_encoding = ENC_WIDE /\ Py_WithinDoubleByte(str, s, i) = 2
                     THEN i - 1 ELSE i
            IN <<j, j - s>>

\* static int Py_CalcTextPos(text, start_offs, end_offs, pref_col, ret):
\* <<ret[0], ret[1]>>, or <<-1>> for the return of -1 (the TypeError).
Py_CalcTextPos(t, s, e, col) ==
    IF t.kind = "unicode" THEN CalcTextPosUnicodeLoop(t.data, s, e, col, 0)
    ELSE IF t.kind # "bytes" THEN <<-1>>
    ELSE IF byte_encoding = ENC_UTF8
        THEN CalcTextPosLoop(t.data, Len(t.data), s, e, col, 0)
    ELSE CalcTextPosBytes(t.data, s, e, col)

----------------------------------------------------------------------------
(* The calls of the position functions on a text and a span of it *)

\* The bounds of the texts and of the preferred columns.
MaxTextLen == 3
MaxCol == 4

\* The bytes of the byte strings: the control 0x01 (width 0), 'A' (width 1,
\* and in "wide" mode a possible second half), the bytes 0x80 and 0x84, which
\* are UTF-8 continuation bytes and in "wide" mode high bytes (0x80 below and
\* 0x84 above the 0x81 that Py_WithinDoubleByte tests), and the UTF-8 lead
\* 0xE1 (E1 80 xx: U+1000.., width 1; E1 84 xx: U+1100.., width 2).
PosBytes == {1, 65, 128, 132, 225}

\* The ordinals of the unicode strings: of widths 0, 8, 1 and 2.
PosChars == {1, 9, 65, 4352}

Unicode(ustr) == [kind |-> "unicode", data |-> ustr]

\* The texts of the scenarios: "A", the euro sign, "B" in UTF-8, and two
\* double-byte characters.
EuroText == Bytes(<<65, 226, 130, 172, 66>>)
TwoPairsText == Bytes(<<129, 64, 129, 64>>)
ExampleTexts == {EuroText, TwoPairsText}

PosTexts ==
    {Bytes(str) : str \in SeqsUpTo(PosBytes, MaxTextLen)}
    \cup {Unicode(ustr) : ustr \in SeqsUpTo(PosChars, MaxTextLen)}
    \cup ExampleTexts

InitPos ==
    /\ byte_encoding = ENC_UTF8 /\ enc = ""
    /\ text \in PosTexts
    /\ start_offs \in 0 .. Len(text.data)
    /\ end_offs \in start_offs .. Len(text.data)
    /\ pref_col = 0
    /\ ord = 0 /\ offs = 0 /\ pos = 0
    /\ line_start = 0
    /\ call = "none" /\ ret = None /\ err = ""
    /\ decoded = <<>> /\ calls = 0 /\ src = <<>>

\* static PyObject * calc_width(self, args)
calc_width ==
    /\ call' = "calc_width"
    /\ LET r == Py_CalcWidth(text, start_offs, end_offs)
       IN IF r = -1 THEN ret' = None /\ err' = TypeError
          ELSE ret' = r /\ err' = ""
    /\ enc' = "" /\ pref_col' = 0
    /\ UNCHANGED <<line_start, byte_encoding, text, ord, offs, pos, start_offs, end_offs,
                   decoded, calls, src>>

\* static PyObject * calc_text_pos(self, args), with a preferred column of
\* 0 .. MaxCol or the width that a calc_width just returned.
calc_text_pos ==
    \E col \in 0 .. MaxCol \cup (IF call = "calc_width" /\ err = "" THEN {ret} ELSE {}) :
        /\ call' = "calc_text_pos"
        /\ pref_col' = col
        /\ LET r == Py_CalcTextPos(text, start_offs, end_offs, col)
           IN IF r = <<-1>> THEN ret' = None /\ err' = TypeError
              ELSE ret' = r /\ err' = ""
        /\ enc' = ""
        /\ UNCHANGED <<line_start, byte_encoding, text, ord, offs, pos, start_offs, end_offs,
                       decoded, calls, src>>

NextPos == set_byte_encoding \/ get_byte_encoding \/ calc_width \/ calc_text_pos

SpecPos == InitPos /\ [][NextPos]_vars

----------------------------------------------------------------------------
(* move_prev_char, move_next_char *)

RECURSIVE MovePrevCharLoop(_, _, _)
\* while ((position > start_offs) && (str[position]&0xc0) == 0x80) position -= 1;
MovePrevCharLoop(str, s, position) ==
    IF position > s /\ BitAnd(At(str, position), 192) = 128
    THEN MovePrevCharLoop(str, s, position - 1)
    ELSE position

\* A Py_MovePrevChar that steps back two bytes whenever the byte before
\* end_offs is within a double-byte character, on either half.
Py_MovePrevChar_AnyHalf(t, s, e) ==
    IF t.kind = "unicode" THEN e - 1
    ELSE IF byte_encoding = ENC_UTF8 THEN MovePrevCharLoop(t.data, s, e - 1)
    ELSE IF byte_encoding = ENC_WIDE /\ Py_WithinDoubleByte(t.data, s, e - 1) # 0
        THEN e - 2
    ELSE e - 1

\* static Py_ssize_t Py_MovePrevChar(text, start_offs, end_offs).  There is no
\* PyBytes_Check: whatever is not unicode is read as a byte string.
Py_MovePrevChar(t, s, e) ==
    IF t.kind = "unicode" THEN e - 1
    ELSE IF byte_encoding = ENC_UTF8 THEN MovePrevCharLoop(t.data, s, e - 1)
    ELSE IF byte_encoding = ENC_WIDE /\ Py_WithinDoubleByte(t.data, s, e - 1) = 2
        THEN e - 2
    ELSE e - 1

RECURSIVE MoveNextCharLoop(_, _, _)
\* while ((position < end_offs) && ((str[position]&0xc0) == 0x80)) position += 1;
MoveNextCharLoop(str, e, position) ==
    IF position < e /\ BitAnd(At(str, position), 192) = 128
    THEN MoveNextCharLoop(str, e, position + 1)
    ELSE position

\* A Py_MoveNextChar that does not skip the continuation bytes.
Py_MoveNextChar_OneByte(t, s, e) ==
    IF t.kind = "unicode" THEN s + 1
    ELSE IF byte_encoding = ENC_UTF8 THEN s + 1
    ELSE IF byte_encoding = ENC_WIDE /\ Py_WithinDoubleByte(t.data, s, s) = 1
        THEN s + 2
    ELSE s + 1

\* static Py_ssize_t Py_MoveNextChar(text, start_offs, end_offs).  There is no
\* PyBytes_Check here either.
Py_MoveNextChar(t, s, e) ==
    IF t.kind = "unicode" THEN s + 1
    ELSE IF byte_encoding = ENC_UTF8 THEN MoveNextCharLoop(t.data, e, s + 1)
    ELSE IF byte_encoding = ENC_WIDE /\ Py_WithinDoubleByte(t.data, s, s) = 1
        THEN s + 2
    ELSE s + 1

\* A text that is neither a byte string nor a unicode string (None, a
\* number).  PyBytes_AsString returns NULL for it: it has no bytes, and
\* every str[i] is a read through the null pointer.
Other == [kind |-> "other", data |-> <<>>]

\* The outcome of a call that dereferenced an invalid pointer and was killed.
SIGSEGV == "SIGSEGV"

\* The values a read outside the byte string may find: a byte below 0x80
\* that is a possible second half, and a high byte.
Garbage == {65, 132}

\* The memory the functions index with str[i]: the bytes of the string and,
\* for a bytes object, the 0 that ends its buffer, between what lies before
\* and after.  str[i] is At(Memory(..), i + Len(before)).
Memory(t, before, after) ==
    before \o t.data \o (IF t.kind = "bytes" THEN <<0>> ELSE <<>>) \o after

\* The text as the functions read it: a unicode string as it is, anything
\* else through the char * that PyBytes_AsString returned, here moved right
\* by Len(before).
AsString(t, before, after) ==
    IF t.kind = "unicode" THEN t ELSE Bytes(Memory(t, before, after))

\* The arguments with which Py_MovePrevChar reads outside the byte string:
\* in "utf8" mode it reads str[end_offs-1] down to str[start_offs+1], in
\* "wide" mode what Py_WithinDoubleByte(str, start_offs, end_offs-1) reads,
\* which is below str[0] when end_offs-1 < start_offs <= 1.
MovePrevCharUndefined ==
    /\ text.kind # "unicode"
    /\ \/ /\ byte_encoding = ENC_UTF8
          /\ text.kind = "other"
          /\ end_offs - 1 > start_offs
       \/ /\ byte_encoding = ENC_WIDE
          /\ \/ text.kind = "other"
             \/ \E i \in WithinDoubleByteReads(Memory(text, <<0, 0>>, <<>>),
                                                start_offs + 2, end_offs + 1) :
                    i < 2

SystemError == "SystemError"

\* What the caller gets when the function returns Py_BuildValue(value).  For
\* a text of another type PyBytes_AsString has set a TypeError that nothing
\* clears: the value is returned with it pending, or the interpreter, finding
\* a result returned with an error set, raises SystemError.
Returns(value) ==
    \/ ret' = value /\ err' = ""
    \/ text.kind = "other" /\ ret' = None /\ err' = SystemError

\* static PyObject * move_prev_char(self, args).  The result of
\* Py_MovePrevChar is returned as it is; a call that reads outside the byte
\* string is killed or goes on with what it found there.
move_prev_char ==
    /\ call' = "move_prev_char"
    /\ IF MovePrevCharUndefined
       THEN \/ ret' = None /\ err' = SIGSEGV
            \/ \E before \in [1 .. 2 -> Garbage] :
                  Returns(Py_MovePrevChar(AsString(text, before, <<>>),
                                          start_offs + 2, end_offs + 2) - 2)
       ELSE Returns(Py_MovePrevChar(AsString(text, <<>>, <<>>), start_offs, end_offs))
    /\ enc' = "" /\ pref_col' = 0
    /\ UNCHANGED <<line_start, byte_encoding, text, ord, offs, pos, start_offs, end_offs,
                   decoded, calls, src>>

\* The arguments with which Py_MoveNextChar reads outside the byte string:
\* in "utf8" mode it reads str[start_offs+1] up to str[end_offs-1], in "wide"
\* mode str[start_offs], which for a bytes object is at most the 0 at str[len].
MoveNextCharUndefined ==
    /\ text.kind = "other"
    /\ \/ byte_encoding = ENC_UTF8 /\ start_offs + 1 < end_offs
       \/ byte_encoding = ENC_WIDE

\* static PyObject * move_next_char(self, args)
move_next_char ==
    /\ call' = "move_next_char"
    /\ IF MoveNextCharUndefined
       THEN \/ ret' = None /\ err' = SIGSEGV
            \/ \E after \in [1 .. 1 -> Garbage] :
                  Returns(Py_MoveNextChar(AsString(text, <<>>, after),
                                          start_offs, end_offs))
       ELSE Returns(Py_MoveNextChar(AsString(text, <<>>, <<>>), start_offs, end_offs))
    /\ enc' = "" /\ pref_col' = 0
    /\ UNCHANGED <<line_start, byte_encoding, text, ord, offs, pos, start_offs, end_offs,
                   decoded, calls, src>>

NextMove == set_byte_encoding \/ move_prev_char \/ move_next_char

SpecMove == InitPos /\ [][NextMove]_vars

----------------------------------------------------------------------------
(* within_double_byte, is_wide_char *)

IndexError == "IndexError"

\* A within_double_byte that also refuses pos = line_start.
within_double_byte_Strict ==
    /\ text.kind = "bytes"
    /\ call' = "within_double_byte"
    /\ LET str_len == Len(text.data)
       IN IF line_start < 0 \/ line_start >= str_len THEN ret' = None /\ err' = IndexError
          ELSE IF pos < 0 \/ pos >= str_len THEN ret' = None /\ err' = IndexError
          ELSE IF pos <= line_start THEN ret' = None /\ err' = IndexError
          ELSE /\ ret' = Py_WithinDoubleByte(text.data, line_start, pos)
               /\ err' = ""
    /\ enc' = "" /\ pref_col' = 0
    /\ UNCHANGED <<line_start, byte_encoding, text, ord, offs, pos, start_offs, end_offs,
                   decoded, calls, src>>

\* static PyObject * within_double_byte(self, args), on a byte string ("s#").
within_double_byte ==
    /\ text.kind = "bytes"
    /\ call' = "within_double_byte"
    /\ LET str_len == Len(text.data)
       IN IF line_start < 0 \/ line_start >= str_len THEN ret' = None /\ err' = IndexError
          ELSE IF pos < 0 \/ pos >= str_len THEN ret' = None /\ err' = IndexError
          ELSE IF pos < line_start THEN ret' = None /\ err' = IndexError
          ELSE /\ ret' = Py_WithinDoubleByte(text.data, line_start, pos)
               /\ err' = ""
    /\ enc' = "" /\ pref_col' = 0
    /\ UNCHANGED <<line_start, byte_encoding, text, ord, offs, pos, start_offs, end_offs,
                   decoded, calls, src>>

\* The indexes of str that a call within_double_byte(str, line_start, p)
\* reads: none on the three paths that raise, else those of
\* Py_WithinDoubleByte.
within_double_byte_reads(str, lstart, p) ==
    LET str_len == Len(str)
    IN IF lstart < 0 \/ lstart >= str_len THEN {}
       ELSE IF p < 0 \/ p >= str_len THEN {}
       ELSE IF p < lstart THEN {}
       ELSE WithinDoubleByteReads(str, lstart, p)

\* static int Py_IsWideChar(text, offs); -1 is the TypeError.
Py_IsWideChar(t, o) ==
    IF t.kind = "unicode" THEN IF Py_GetWidth(At(t.data, o)) = 2 THEN 1 ELSE 0
    ELSE IF t.kind # "bytes" THEN -1
    ELSE IF byte_encoding = ENC_UTF8
        THEN IF Py_GetWidth(Py_DecodeOne(t.data, Len(t.data), o)[1]) = 2 THEN 1 ELSE 0
    ELSE IF byte_encoding = ENC_WIDE
        THEN IF Py_WithinDoubleByte(t.data, o, o) = 1 THEN 1 ELSE 0
    ELSE 0

\* static PyObject * is_wide_char(self, args), at an offset inside the text.
is_wide_char ==
    /\ text.kind \in {"bytes", "unicode"} => 0 <= offs /\ offs < Len(text.data)
    /\ call' = "is_wide_char"
    /\ LET r == Py_IsWideChar(text, offs)
       IN IF r = -1 THEN ret' = None /\ err' = TypeError
          ELSE ret' = (r # 0) /\ err' = ""
    /\ enc' = "" /\ pref_col' = 0
    /\ UNCHANGED <<line_start, byte_encoding, text, ord, offs, pos, start_offs, end_offs,
                   decoded, calls, src>>

\* The bound of the byte strings of within_double_byte.
MaxDbLen == 4

\* Their bytes: one below 0x40, 'A' (0x40 <= b < 0x7f, a possible second
\* half), 0x7f, and the high bytes 0x80 (below the 0x81 of the test on
\* str[pos-1]) and 0x81.
DbBytes == {32, 65, 127, 128, 129}

\* line_start and pos are drawn from -1 .. len: inside the string, and
\* outside it on either side.
InitDoubleByte ==
    /\ byte_encoding = ENC_UTF8 /\ enc = ""
    /\ text \in {Bytes(str) : str \in SeqsUpTo(DbBytes, MaxDbLen)}
    /\ line_start \in -1 .. Len(text.data)
    /\ pos \in -1 .. Len(text.data)
    /\ ord = 0 /\ offs = 0 /\ start_offs = 0 /\ end_offs = 0 /\ pref_col = 0
    /\ call = "none" /\ ret = None /\ err = ""
    /\ decoded = <<>> /\ calls = 0 /\ src = <<>>

NextDoubleByte == within_double_byte

SpecDoubleByte == InitDoubleByte /\ [][NextDoubleByte]_vars

----------------------------------------------------------------------------
(* The module: every function of Str_UtilMethods *)

\* The texts of the calls: the two example byte strings, "A" and U+1100 as
\* a unicode string, and a text of another type.
ApiTexts == ExampleTexts \cup {Unicode(<<65, 4352>>), Other}

\* The ordinals of get_width: TAB and U+4E2D.
ApiOrds == {9, 20013}

Init ==
    /\ byte_encoding = ENC_UTF8 /\ enc = ""
    /\ text \in ApiTexts
    /\ ord \in ApiOrds
    /\ start_offs \in 0 .. Len(text.data)
    /\ end_offs \in start_offs .. Len(text.data)
    /\ offs \in {0} \cup (0 .. Len(text.data) - 1)
    /\ pos = offs
    /\ line_start = 0
    /\ pref_col = 0
    /\ call = "none" /\ ret = None /\ err = ""
    /\ decoded = <<>> /\ calls = 0 /\ src = <<>>

Next ==
    \/ get_byte_encoding \/ set_byte_encoding
    \/ get_width
    \/ decode_one \/ decode_one_right
    \/ within_double_byte
    \/ is_wide_char
    \/ move_prev_char \/ move_next_char
    \/ calc_width \/ calc_text_pos

Spec == Init /\ [][Next]_vars

----------------------------------------------------------------------------
(* The width table as the ranges it stands for *)

\* The k-th range of the table, k = 1 .. NumRanges.
RangeEnd(k) == widths[2 * k - 1]
RangeWidth(k) == widths[2 * k]
RangeLow(k) == IF k = 1 THEN 0 ELSE RangeEnd(k - 1) + 1

\* The first range, in table order, whose last ordinal is >= c (0 if none).
FirstRange(c) ==
    IF \A k \in 1 .. NumRanges : RangeEnd(k) < c THEN 0
    ELSE CHOOSE k \in 1 .. NumRanges :
            RangeEnd(k) >= c /\ \A j \in 1 .. k - 1 : RangeEnd(j) < c

\* The width the table gives to c.
ExpectedWidth(c) ==
    IF c \in {14, 15} THEN 0
    ELSE IF FirstRange(c) = 0 THEN 1
    ELSE RangeWidth(FirstRange(c))

\* C1 as stated: get_width returns 0, 1 or 2 for every ordinal, and no entry
\* of the table holds another width.
C1_WidthIsZeroOneOrTwo ==
    call = "get_width" =>
        /\ ret \in {0, 1, 2}
        /\ FirstRange(ord) # 0 => RangeWidth(FirstRange(ord)) \in {0, 1, 2}

\* C1 as amended: get_width returns 0, 1 or 2 for every ordinal but 9 (TAB),
\* for which it returns 8; the range that ends at 9 is the only entry of the
\* table whose width is not 0, 1 or 2.
C1_WidthIsZeroOneOrTwoButForTab ==
    /\ call = "get_width" => IF ord = 9 THEN ret = 8 ELSE ret \in {0, 1, 2}
    /\ \A k \in 1 .. NumRanges :
          IF RangeEnd(k) = 9 THEN RangeWidth(k) = 8 /\ RangeLow(k) = 9
          ELSE RangeWidth(k) \in {0, 1, 2}

\* get_width has been called for TAB.
C1_Witness == call = "get_width" /\ ord = 9 /\ ret = 8

\* C2: get_width returns 0 for 0xe and 0xf, otherwise the width of the first
\* range whose last ordinal is >= ord, and 1 above the last range; so it gives
\* the two ends of ord's range the width it gives ord, and U+4E2D width 2.
C2_WidthIsFirstRange ==
    call = "get_width" =>
        /\ ret = ExpectedWidth(ord)
        /\ ord \in {14, 15} => ret = 0
        /\ ord > RangeEnd(NumRanges) => ret = 1
        /\ ord = 20013 => ret = 2
        /\ LET k == FirstRange(ord)
           IN k # 0 /\ ord >= 0 =>
                 /\ Py_GetWidth(RangeLow(k)) = ret
                 /\ Py_GetWidth(RangeEnd(k)) = ret

\* get_width has been called for U+4E2D.
C2_Witness == call = "get_width" /\ ord = 20013 /\ ret = 2

----------------------------------------------------------------------------
(* UTF-8 as the claims about the decoder state it *)

IsContinuation(b) == b \in 128 .. 191

\* The length a lead byte announces (0: not a lead byte).
LeadLength(b) ==
    IF b < 128 THEN 1
    ELSE IF b \in 192 .. 223 THEN 2
    ELSE IF b \in 224 .. 239 THEN 3
    ELSE IF b \in 240 .. 247 THEN 4
    ELSE 0

\* The least code point whose encoding takes n bytes.
LeastOfLength(n) == IF n = 1 THEN 0 ELSE IF n = 2 THEN 128 ELSE IF n = 3 THEN 2048 ELSE 65536

\* The value of the n-byte sequence at p, all of it inside str.
SequenceValue(str, p, n) ==
    IF n = 1 THEN At(str, p)
    ELSE IF n = 2 THEN (At(str, p) % 32) * 64 + (At(str, p + 1) % 64)
    ELSE IF n = 3 THEN (At(str, p) % 16) * 4096 + (At(str, p + 1) % 64) * 64
                       + (At(str, p + 2) % 64)
    ELSE (At(str, p) % 8) * 262144 + (At(str, p + 1) % 64) * 4096
         + (At(str, p + 2) % 64) * 64 + (At(str, p + 3) % 64)

\* The bytes at p are not a minimal UTF-8 sequence inside str: a bad lead
\* byte, too few bytes left, a following byte that is no continuation byte,
\* or an over-long value.
Malformed(str, p) ==
    LET n == LeadLength(At(str, p))
    IN  \/ n = 0
        \/ p + n > Len(str)
        \/ \E k \in 1 .. n - 1 : ~IsContinuation(At(str, p + k))
        \/ SequenceValue(str, p, n) < LeastOfLength(n)

\* The UTF-8 encoding of code point c.
Encode(c) ==
    IF c < 128 THEN <<c>>
    ELSE IF c < 2048 THEN <<192 + (c \div 64), 128 + (c % 64)>>
    ELSE IF c < 65536 THEN
        <<224 + (c \div 4096), 128 + ((c \div 64) % 64), 128 + (c % 64)>>
    ELSE <<240 + (c \div 262144), 128 + ((c \div 4096) % 64),
           128 + ((c \div 64) % 64), 128 + (c % 64)>>

RECURSIVE EncodeAll(_)
EncodeAll(cs) == IF cs = <<>> THEN <<>> ELSE Encode(Head(cs)) \o EncodeAll(Tail(cs))

Min(a, b) == IF a < b THEN a ELSE b

\* C3: on a malformed sequence decode_one returns ('?', pos + 1); so it does
\* on the lone lead byte 0xC0.
C3_MalformedGivesReplacement ==
    /\ call = "decode_one" /\ Malformed(text.data, pos) => ret = <<63, pos + 1>>
    /\ call = "decode_one" /\ text.data = <<192>> => ret = <<63, 1>>

\* decode_one has been called on an over-long three-byte sequence.
C3_Witness ==
    /\ call = "decode_one" /\ pos = 0 /\ ret = <<63, 1>>
    /\ text.data = <<224, 128, 128>>

\* C4: decode_one returns a next offset in pos+1 .. min(pos+4, len) and reads
\* no byte outside the text, so a left-to-right scan never passes len and
\* makes at most as many calls as it has moved bytes.
C4_ForwardProgressInBounds ==
    call = "decode_one" =>
        /\ pos < ret[2]
        /\ ret[2] <= Min(pos + 4, Len(text.data))
        /\ DecodeOneReads(text.data, Len(text.data), pos) \subseteq 0 .. Len(text.data) - 1
        /\ offs <= Len(text.data)
        /\ calls <= offs
        /\ calls <= Len(text.data)

\* A scan from 0 has reached the end of a malformed text of MaxDecodeLen
\* bytes, one byte a call.
C4_Witness ==
    /\ call = "decode_one"
    /\ Len(text.data) = MaxDecodeLen /\ offs = MaxDecodeLen /\ calls = MaxDecodeLen
    /\ At(text.data, 0) = 240

\* C6 as stated: decode_one_right returns a previous offset below pos.
C6_BackwardProgress ==
    call = "decode_one_right" => ret[2] < pos

----------------------------------------------------------------------------
(* The round trip: scanning the encoding of a sequence of code points *)

\* The bounds of the encoded sequences.
MaxChars == 3

\* The code points encoded: '?', the least and the greatest of each length,
\* and the euro sign.
RoundTripChars == {63, 0, 127, 128, 2047, 2048, 8364, 65535, 65536, 1114111}

InitRoundTrip ==
    /\ byte_encoding = ENC_UTF8 /\ enc = ""
    /\ src \in SeqsUpTo(RoundTripChars, MaxChars)
    /\ text = Bytes(EncodeAll(src))
    /\ offs = 0 /\ pos = 0
    /\ ord = 0 /\ start_offs = 0 /\ end_offs = 0 /\ pref_col = 0
    /\ line_start = 0
    /\ call = "none" /\ ret = None /\ err = ""
    /\ decoded = <<>> /\ calls = 0

NextRoundTrip == decode_one

SpecRoundTrip == InitRoundTrip /\ [][NextRoundTrip]_vars

\* C5: scanning the encoding of src from 0, every call returns the next code
\* point of src and consumes the bytes of its encoding, and the scan ends at
\* the length of the text with all of src decoded.
C5_RoundTrip ==
    call = "decode_one" =>
        /\ calls <= Len(src)
        /\ decoded = SubSeq(src, 1, calls)
        /\ ret[1] = src[calls]
        /\ ret[2] - pos = Len(Encode(src[calls]))
        /\ offs = Len(EncodeAll(SubSeq(src, 1, calls)))
        /\ offs >= Len(text.data) => offs = Len(text.data) /\ decoded = src
        /\ ret[1] = 63 => src[calls] = 63

\* The scan has decoded a text of MaxChars characters that ends with a
\* four-byte one.
C5_Witness ==
    /\ call = "decode_one" /\ offs = Len(text.data) /\ decoded = src
    /\ Len(src) = MaxChars /\ src[1] = 8364 /\ src[MaxChars] = 1114111

----------------------------------------------------------------------------
(* The characters of a span, as the claims about calc_width and           *)
(* calc_text_pos count them                                                *)

\* The text's characters are decoded one by one: a unicode string, or bytes
\* in utf8 mode.
ByCharacter == text.kind = "unicode" \/ byte_encoding = ENC_UTF8

\* The ordinal of the character at offset i of t, and the offset after it.
CharAt(t, i) ==
    IF t.kind = "unicode" THEN <<At(t.data, i), i + 1>>
    ELSE Py_DecodeOne(t.data, Len(t.data), i)

RECURSIVE CharOffsets(_, _, _)
\* The offsets of the characters met from offset i while the offset is < e.
CharOffsets(t, i, e) ==
    IF i < e THEN <<i>> \o CharOffsets(t, CharAt(t, i)[2], e) ELSE <<>>

\* The offset at which the walk over those characters ends.
CharsEnd(t, s, e) ==
    LET offsets == CharOffsets(t, s, e)
    IN IF offsets = <<>> THEN s ELSE CharAt(t, offsets[Len(offsets)])[2]

CharWidth(t, i) == Py_GetWidth(CharAt(t, i)[1])

RECURSIVE Sum(_)
Sum(ns) == IF ns = <<>> THEN 0 ELSE Head(ns) + Sum(Tail(ns))

\* The sum of the widths of the characters met from s while the offset is < e.
SpanWidth(t, s, e) ==
    LET offsets == CharOffsets(t, s, e)
    IN Sum([k \in 1 .. Len(offsets) |-> CharWidth(t, offsets[k])])

\* C7: on bytes, calc_width is in utf8 mode the sum of get_width over the
\* ordinals that decode_one returns from start_offs while the offset is below
\* end_offs, and end_offs - start_offs in the other modes; the five bytes of
\* "A", euro, "B" decode to 0x41 and 0x20AC and are 3 columns wide.
C7_CalcWidthSumsWidths ==
    /\ call = "calc_width" /\ text.kind = "bytes" =>
          /\ err = ""
          /\ ret = IF byte_encoding = ENC_UTF8
                   THEN SpanWidth(text, start_offs, end_offs)
                   ELSE end_offs - start_offs
    /\ call = "calc_width" /\ text = EuroText /\ byte_encoding = ENC_UTF8
       /\ start_offs = 0 /\ end_offs = 5 =>
          /\ ret = 3
          /\ Py_DecodeOne(text.data, 5, 0) = <<65, 1>>
          /\ Py_DecodeOne(text.data, 5, 1) = <<8364, 4>>

\* calc_width has measured "A", euro, "B" in utf8 mode.
C7_Witness ==
    /\ call = "calc_width" /\ text = EuroText /\ byte_encoding = ENC_UTF8
    /\ start_offs = 0 /\ end_offs = 5 /\ ret = 3

\* calc_text_pos was asked for the column that calc_width gives the span.
AtSpanWidth ==
    /\ call = "calc_text_pos" /\ err = ""
    /\ pref_col = Py_CalcWidth(text, start_offs, end_offs)

\* C8 as stated: calc_text_pos at the width of the span returns
\* (end_offs, that width), in every mode.
C8_SpanWidthLandsAtEnd ==
    AtSpanWidth => ret = <<end_offs, pref_col>>

\* C9 as stated: calc_text_pos at column 0 returns (start_offs, 0).
C9_ColumnZeroLandsAtStart ==
    call = "calc_text_pos" /\ err = "" /\ pref_col = 0 => ret = <<start_offs, 0>>

\* C9 as amended: calc_text_pos at column 0 returns column 0; the offset is
\* start_offs for bytes in wide and narrow mode, and otherwise (utf8 bytes,
\* unicode) the offset of the first character from start_offs whose width is
\* not 0, or where the walk over the span ends if it holds none: start_offs
\* when the span is empty or starts with a character of width > 0.
C9_ColumnZeroSkipsZeroWidth ==
    call = "calc_text_pos" /\ err = "" /\ pref_col = 0 =>
        /\ ret[2] = 0
        /\ ret[1] >= start_offs
        /\ ~ByCharacter => ret[1] = start_offs
        /\ ByCharacter =>
              LET offsets == CharOffsets(text, start_offs, end_offs)
                  wide == {k \in 1 .. Len(offsets) : CharWidth(text, offsets[k]) > 0}
              IN /\ wide = {} => ret[1] = CharsEnd(text, start_offs, end_offs)
                 /\ wide # {} =>
                       \E k \in wide : /\ ret[1] = offsets[k]
                                       /\ \A j \in wide : k <= j
                 /\ 1 \in wide => ret[1] = start_offs
                 /\ start_offs = end_offs => ret[1] = start_offs

\* calc_text_pos at column 0 has skipped a control character in utf8 mode.
C9_Witness ==
    /\ call = "calc_text_pos" /\ pref_col = 0 /\ byte_encoding = ENC_UTF8
    /\ text = Bytes(<<1, 65>>) /\ start_offs = 0 /\ end_offs = 2
    /\ ret = <<1, 0>>

\* In wide mode the first two bytes of TwoPairsText are the halves of a
\* pair, and calc_text_pos at column 1 steps back to offset 0.
TwoPairsScenario ==
    /\ Py_WithinDoubleByte(TwoPairsText.data, 0, 0) = 1
    /\ Py_WithinDoubleByte(TwoPairsText.data, 0, 1) = 2
    /\ call = "calc_text_pos" /\ text = TwoPairsText /\ byte_encoding = ENC_WIDE
       /\ start_offs = 0 /\ end_offs = 4 /\ pref_col = 1 => ret = <<0, 0>>

\* C10 as stated: in wide mode the offset o that calc_text_pos returns for
\* bytes is no second half of a pair whenever o < len.
C10_NeverSecondHalf ==
    call = "calc_text_pos" /\ text.kind = "bytes" /\ byte_encoding = ENC_WIDE
    /\ ret[1] < Len(text.data) =>
        Py_WithinDoubleByte(text.data, start_offs, ret[1]) # 2

\* C10 as amended: in wide mode the offset o that calc_text_pos returns for
\* bytes is no second half of a pair whenever o < end_offs (an offset clamped
\* to end_offs is returned as it is); and the scenario of the two pairs.
C10_NeverSecondHalfBelowEnd ==
    /\ call = "calc_text_pos" /\ text.kind = "bytes" /\ byte_encoding = ENC_WIDE
       /\ ret[1] < end_offs =>
          Py_WithinDoubleByte(text.data, start_offs, ret[1]) # 2
    /\ TwoPairsScenario

\* calc_text_pos has stepped back from the second half of the first pair.
C10_Witness ==
    /\ call = "calc_text_pos" /\ text = TwoPairsText /\ byte_encoding = ENC_WIDE
    /\ start_offs = 0 /\ end_offs = 4 /\ pref_col = 1 /\ ret = <<0, 0>>

----------------------------------------------------------------------------
(* move_prev_char and move_next_char: C11, C12 *)

\* The length of the character of a well-formed text that starts at offset
\* i (0: none does): an element of a unicode string, a byte in "narrow"
\* mode, a minimal UTF-8 sequence in "utf8" mode, and in "wide" mode a byte
\* below 0x80 or a high byte with the byte after it.
CharLength(t, i) ==
    IF t.kind = "unicode" \/ byte_encoding = ENC_NARROW THEN 1
    ELSE IF byte_encoding = ENC_UTF8
        THEN IF Malformed(t.data, i) THEN 0 ELSE LeadLength(At(t.data, i))
    ELSE IF At(t.data, i) < 128 THEN 1
    ELSE IF i + 2 <= Len(t.data) THEN 2
    ELSE 0

RECURSIVE Boundaries(_, _)
\* The character boundaries of t from offset i on, with -1 among them when
\* the rest of t is not a sequence of whole characters.
Boundaries(t, i) ==
    IF i >= Len(t.data) THEN {i}
    ELSE LET n == CharLength(t, i)
         IN IF n = 0 THEN {i, -1} ELSE {i} \cup Boundaries(t, i + n)

WellFormed(t) == -1 \notin Boundaries(t, 0)

\* start_offs < end_offs are character boundaries of a well-formed text.
OnBoundaries ==
    /\ text.kind \in {"bytes", "unicode"}
    /\ WellFormed(text)
    /\ start_offs < end_offs
    /\ {start_offs, end_offs} \subseteq Boundaries(text, 0)

\* C11: when text is well formed for the mode and start_offs < end_offs are
\* character boundaries, move_next_char from the offset that move_prev_char
\* returned gives end_offs again.
C11_NextUndoesPrev ==
    call = "move_prev_char" /\ OnBoundaries =>
        /\ err = ""
        /\ Py_MoveNextChar(AsString(text, <<>>, <<>>), ret, end_offs) = end_offs

\* move_prev_char stepped back over a character of several bytes.
C11_Witness ==
    /\ call = "move_prev_char" /\ OnBoundaries
    /\ text.kind = "bytes"
    /\ ret < end_offs - 1
    /\ Py_MoveNextChar(AsString(text, <<>>, <<>>), ret, end_offs) = end_offs

\* C12: for 0 <= start_offs <= end_offs <= len, in every mode, the offset
\* that move_prev_char returns is not below start_offs, also when end_offs =
\* start_offs.
C12_PrevNotBelowStart ==
    call = "move_prev_char" /\ text.kind \in {"bytes", "unicode"} /\ err = "" =>
        ret >= start_offs

----------------------------------------------------------------------------
(* The encoding mode: C13 *)

\* The name of a mode.
ModeName(mode) ==
    IF mode = ENC_UTF8 THEN "utf8" ELSE IF mode = ENC_WIDE THEN "wide" ELSE "narrow"

RecognizedNames == {"utf8", "wide", "narrow"}

\* C13: the mode is "utf8" at first and always one of the three modes;
\* get_byte_encoding returns the name of the mode; a set_byte_encoding with
\* a recognized name makes it the mode, one with another name raises
\* ValueError and leaves the mode as it was; and no other call changes the
\* mode.  So get_byte_encoding returns the name of the last set_byte_encoding
\* with a recognized name, "utf8" if there was none.
C13_ModeIsLastRecognizedName ==
    /\ byte_encoding = ENC_UTF8
    /\ [](byte_encoding \in {ENC_UTF8, ENC_WIDE, ENC_NARROW})
    /\ [](call = "get_byte_encoding" => err = "" /\ ret = ModeName(byte_encoding))
    /\ [][call' = "set_byte_encoding" /\ enc' \in RecognizedNames =>
            err' = "" /\ ModeName(byte_encoding') = enc']_vars
    /\ [][call' = "set_byte_encoding" /\ enc' \notin RecognizedNames =>
            err' = ValueError /\ byte_encoding' = byte_encoding]_vars
    /\ [][call' # "set_byte_encoding" => byte_encoding' = byte_encoding]_vars

\* A set_byte_encoding with an unknown name has failed in "wide" mode.
C13_Witness ==
    /\ call = "set_byte_encoding" /\ enc = "bogus"
    /\ err = ValueError
    /\ byte_encoding = ENC_WIDE

----------------------------------------------------------------------------
(* within_double_byte: C14, C18 *)

\* line_start or pos is outside [0, len), or pos is before line_start.
OutOfRange ==
    \/ line_start \notin 0 .. Len(text.data) - 1
    \/ pos \notin 0 .. Len(text.data) - 1
    \/ pos < line_start

\* C14: within_double_byte raises IndexError, having read no byte, exactly
\* when line_start or pos is outside [0, len) or pos < line_start; otherwise
\* it returns 0, 1 or 2 and has read only bytes at indexes in
\* line_start .. pos.
C14_IndexErrorOrHalf ==
    call = "within_double_byte" =>
        /\ (err = IndexError) <=> OutOfRange
        /\ OutOfRange =>
            /\ ret = None
            /\ within_double_byte_reads(text.data, line_start, pos) = {}
        /\ ~OutOfRange =>
            /\ err = ""
            /\ ret \in {0, 1, 2}
            /\ within_double_byte_reads(text.data, line_start, pos) # {}
            /\ within_double_byte_reads(text.data, line_start, pos) \subseteq line_start .. pos

\* within_double_byte(buf, line_start=2, pos=1) has raised IndexError.
C14_Witness ==
    /\ call = "within_double_byte"
    /\ line_start = 2 /\ pos = 1 /\ Len(text.data) > 2
    /\ err = IndexError

----------------------------------------------------------------------------
(* A text of another type: C15 *)

\* C15: is_wide_char, move_prev_char, move_next_char, calc_width and
\* calc_text_pos, given a text that is neither a byte string nor a unicode
\* string, raise TypeError in every mode (and so return nothing computed from
\* the text).
C15_TypeErrorOnOtherText ==
    /\ text.kind = "other"
    /\ call \in {"is_wide_char", "move_prev_char", "move_next_char",
                 "calc_width", "calc_text_pos"}
    => err = TypeError /\ ret = None

----------------------------------------------------------------------------
(* calc_text_pos, the column and the character it stops at: C16 *)

\* In "wide" mode the characters of a span are those that the scanner makes
\* out from its start: a byte that Py_WithinDoubleByte(str, s, .) calls a
\* second half belongs to the character that starts at the byte before it,
\* and every other byte starts a character.

\* The offsets in s .. e-1 at which a character starts when text is scanned
\* from s: those that calc_width's walk meets, every byte in "narrow" mode,
\* and in "wide" mode every byte that is not a second half.
CharStarts(t, s, e) ==
    IF ByCharacter
    THEN LET offsets == CharOffsets(t, s, e)
         IN {offsets[k] : k \in 1 .. Len(offsets)}
    ELSE IF byte_encoding = ENC_WIDE
        THEN {b \in s .. e - 1 : Py_WithinDoubleByte(t.data, s, b) # 2}
    ELSE s .. e - 1

\* The width of the character that starts at offset b: in "wide" mode 2
\* when the next byte is its second half, and 1 for a byte alone.
WidthAt(t, s, b) ==
    IF ByCharacter THEN CharWidth(t, b)
    ELSE IF /\ byte_encoding = ENC_WIDE
            /\ b + 1 < Len(t.data)
            /\ Py_WithinDoubleByte(t.data, s, b + 1) = 2
        THEN 2
    ELSE 1

\* The width of the characters from s up to offset b.
WidthBefore(t, s, b) == IF ByCharacter THEN SpanWidth(t, s, b) ELSE b - s

\* C16: for 0 <= start_offs <= end_offs <= len and pref_col >= 0, in every
\* mode, calc_text_pos returns (offset, column) with column <= pref_col and
\* column = calc_width(text, start_offs, offset); and when offset < end_offs,
\* the character that starts at offset is the first character of the span
\* whose width, added to the width of those before it, exceeds pref_col.
C16_ColumnIsWidthUpToOffset ==
    call = "calc_text_pos" /\ err = "" =>
        LET offset == ret[1]
            column == ret[2]
        IN  /\ column <= pref_col
            /\ column = Py_CalcWidth(text, start_offs, offset)
            /\ offset < end_offs =>
                /\ offset \in CharStarts(text, start_offs, end_offs)
                /\ column + WidthAt(text, start_offs, offset) > pref_col
                /\ \A b \in CharStarts(text, start_offs, end_offs) :
                       b < offset =>
                           WidthBefore(text, start_offs, b)
                           + WidthAt(text, start_offs, b) <= pref_col

\* calc_text_pos stopped inside the span, past its first character and
\* below pref_col, at a character two columns wide.
C16_Witness ==
    /\ call = "calc_text_pos" /\ err = ""
    /\ start_offs < ret[1] /\ ret[1] < end_offs
    /\ ret[2] < pref_col
    /\ WidthAt(text, start_offs, ret[1]) = 2
    /\ ret[2] = Py_CalcWidth(text, start_offs, ret[1])

----------------------------------------------------------------------------
(* decode_one_right over a run of continuation bytes: C17 *)

\* C17: decode_one_right steps left over at most 4 bytes: the byte it
\* decodes from is at an offset >= pos - 4 and the prev_pos it returns is
\* >= pos - 5, however long the run of continuation bytes that ends at pos.
C17_AtMostFourBytesBack ==
    call = "decode_one_right" =>
        /\ ret[2] >= pos - 5
        /\ DecodeOneRightFrom(text.data, pos) # -1 =>
               DecodeOneRightFrom(text.data, pos) >= pos - 4

----------------------------------------------------------------------------
(* Second halves follow first halves: C18 *)

\* C18: for 0 <= line_start <= pos < len, when within_double_byte(buf,
\* line_start, pos) is 2, pos is above line_start and
\* within_double_byte(buf, line_start, pos - 1) is 1.
C18_SecondHalfFollowsFirstHalf ==
    call = "within_double_byte" /\ err = "" =>
        (ret = 2 =>
            /\ pos > line_start
            /\ Py_WithinDoubleByte(text.data, line_start, pos - 1) = 1)

\* within_double_byte found a second half in 0x40 .. 0x7e, two pairs after
\* line_start.
C18_Witness ==
    /\ call = "within_double_byte" /\ err = ""
    /\ ret = 2
    /\ pos = line_start + 3
    /\ At(text.data, pos) = 65
    /\ Py_WithinDoubleByte(text.data, line_start, pos - 1) = 1
====
